---- MODULE Spec2Model ----
(***************************************************************************)
(* Model of util/dashboard_config.py, prepare_ontologies: the per-ontology *)
(* pipeline (pass one), the impact aggregation (pass two), and the files   *)
(* both leave on disk from one run to the next.                            *)
(* And of util/dashboard/fp_003.py: big_has_valid_uris, check_uri and     *)
(* save_invalid_uris (specification SpecUris).                             *)
(*                                                                         *)
(* Python values are encoded as strings and integers so that every field   *)
(* has one type: a missing dictionary key is Absent, None is Null, True    *)
(* and False are "True" and "False", a missing number is NoNumber.         *)
(***************************************************************************)
EXTENDS Integers, Sequences, FiniteSets, TLC

\* ------------------------------------------------------------------ bounds

\* Number of successive runs of prepare_ontologies a behaviour holds over a
\* registry of one ontology (a registry of two is taken through one run).
MaxRuns == 3

\* File ages (hours since modification) are counted up to MaxAge.
MaxAge == 1

\* The files big_has_valid_uris reads have up to MaxLines lines.
MaxLines == 4

\* The lists save_invalid_uris is called with have up to MaxIris entries.
MaxIris == 2

\* ------------------------------------------------------------- value sets

Absent == "absent"
Null == "null"
NoNumber == -1
AbsentList == <<Absent>>
AbsentSet == {Absent}

\* The ontology namespaces a registry may hold.
Ontologies == {"foo", "bar"}

\* The registries a behaviour may be given, each in its iteration order
\* (for o in ontologies): one ontology, or two in either order.
Registries == {<<"foo">>, <<"foo", "bar">>, <<"bar", "foo">>}

\* What a download may fetch: two versions of an ontology, a storage-bucket
\* listing (ListBucketResult within the first 10 lines), a file of fewer
\* than 10 lines.
Contents == {"owl_v1", "owl_v2", "bucket_page", "short_file"}

\* The registry entry's mirror_from: none, or the url the registry gives the
\* ontology: a plain url for foo, the url of a base file (it holds
\* "bar-base.") for bar.
Urls(ont) == {IF ont = "foo" THEN "url" ELSE "url-base.", Absent}

\* The registry entry's base_ns: declared or not.
BaseNamespaces == {"base_ns", Absent}

\* The base prefixes get_base_prefixes can return for an ontology.
Prefix1(ont) == IF ont = "foo" THEN "FOO" ELSE "BAR"

Prefix2(ont) == IF ont = "foo" THEN "FOO_ALT" ELSE "BAR_ALT"

Other(ont) == IF ont = "foo" THEN "bar" ELSE "foo"

AllPrefixes == UNION {{Prefix1(x), Prefix2(x)} : x \in Ontologies}

\* The lists get_base_prefixes may return for an ontology.
BasePrefixChoices(ont) == {<<Prefix1(ont)>>, <<Prefix1(ont), Prefix2(ont)>>}

\* The key sets namespace_axiom_count_incl may have in an ontology's metrics
\* artifact: its own prefix, or prefixes of the other ontology.
UsageChoices(ont) ==
    {{Prefix1(ont)}, {Prefix1(Other(ont))}, {Prefix1(Other(ont)), Prefix2(Other(ont))}}

\* How far the flattening of a metrics artifact gets before a key is missing
\* (or the file does not parse).
Cuts == {"unparseable", "no_consistent", "no_entity_count", "no_syntax", "full"}

\* The metrics artifacts the toolchain may leave for an ontology: sound
\* ones, those the sanity gate rejects, and incomplete ones.
Artifacts(ont) ==
    [cut : {"full"}, consistent : {"True"}, axioms : {2},
     curie : BasePrefixChoices(ont), usage : UsageChoices(ont), pct : {50}]
    \cup
    [cut : {"full"}, consistent : {"True", "False"}, axioms : {0, 2},
     curie : {<<Prefix1(ont)>>}, usage : {{Prefix1(Other(ont))}}, pct : {50}]
    \cup
    [cut : Cuts \ {"full"}, consistent : {"True"}, axioms : {2},
     curie : {<<Prefix1(ont)>>}, usage : {{Prefix1(Other(ont))}}, pct : {50}]

\* ---------------------------------------------------------------- records

\* metrics of a Result Record (ont_results['metrics']), keys grouped by the
\* order in which lines 227-250 assign them.
NoMetrics ==
    [present |-> FALSE, consistent |-> Absent, axioms |-> NoNumber,
     pct |-> NoNumber, usage |-> AbsentSet, syntax |-> Absent,
     uses |-> NoNumber, impact |-> NoNumber, reuse |-> NoNumber]

EmptyMetrics == [NoMetrics EXCEPT !.present = TRUE]

\* ont_results = dict()
EmptyRecord ==
    [namespace |-> Absent, sha256_hash |-> Absent, changed |-> Absent,
     base_generated |-> Absent, mirror_from |-> Absent,
     base_prefixes |-> AbsentList, metrics |-> NoMetrics,
     failure |-> Absent, results |-> Absent]

NoFile == [exists |-> FALSE, rec |-> EmptyRecord]

File(rec) == [exists |-> TRUE, rec |-> rec]

NoRaw == [content |-> Absent, age |-> NoNumber]

\* ------------------------------------------------------------------ state

VARIABLES
    ontologies,    \* the registry: the namespaces, in iteration order
    config,        \* is_skip_existing, the two thresholds (hours)
    results,       \* dashboard/<o>/dashboard.yml
    raw,           \* build/ontologies/<o>-raw.owl: content and age
    base,          \* build/ontologies/<o>.owl: age, NoNumber when absent
    metricsFile,   \* build/ontologies/<o>-metrics.yml exists
    runs,          \* runs started so far
    pc,            \* position in prepare_ontologies
    idx,           \* index in ontologies of the ontology at hand
    ont_results,   \* the local dict ont_results
    download,      \* the local flag download
    make_base,     \* the local flag make_base
    ourl,          \* the local ourl
    base_namespaces, \* the local base_namespaces
    sha256_hash,   \* the local sha256_hash
    ontology_use,  \* the local dict ontology_use (Global Reuse Map)
    steps,         \* history: the ontology last taken up, the pass, what happened
    prev,          \* history: that ontology's result file as the pass found it
    repeat,        \* history: this run repeats a complete run inside both
                   \* windows and has met no changed input
    lines,         \* fp_003: the lines of the file big_has_valid_uris reads
    lineno,        \* fp_003: the line the loop of line 109 reads next
    prefixes,      \* fp_003: the local flag prefixes
    header,        \* fp_003: the local flag header
    valid,         \* fp_003: the local flag valid
    owl,           \* fp_003: the local owl (Null for None)
    rdf,           \* fp_003: the local rdf (Null for None)
    error,         \* fp_003: the list error
    warn,          \* fp_003: the list warn
    fp3_tsv,       \* fp_003: the rows of build/dashboard/<ns>/fp3.tsv
    status,        \* fp_003: the status returned, Absent before the return
    fpc,           \* fp_003: position in big_has_valid_uris / save_invalid_uris
    checked        \* history: the IRIs passed to check_uri

vars == <<ontologies, config, results, raw, base, metricsFile, runs, pc, idx, ont_results,
          download, make_base, ourl, base_namespaces, sha256_hash,
          ontology_use, steps, prev, repeat,
          lines, lineno, prefixes, header, valid, owl, rdf, error, warn,
          fp3_tsv, status, fpc, checked>>

\* the state of prepare_ontologies
pipeline == <<ontologies, config, results, raw, base, metricsFile, runs, pc, idx,
              ont_results, download, make_base, ourl, base_namespaces,
              sha256_hash, ontology_use, steps, prev, repeat>>

\* the state of the URI check of fp_003
uris == <<lines, lineno, prefixes, header, valid, owl, rdf, error, warn,
          fp3_tsv, status, fpc, checked>>

disk == <<results, raw, base, metricsFile>>

locals == <<ont_results, download, make_base, ourl, base_namespaces, sha256_hash>>

o == ontologies[idx]

Configs == [skip_existing : BOOLEAN, redownload_after_hours : 1..MaxAge,
            force_regenerate_dashboard_after_hours : 0..MaxAge]

NoUse == [p \in AllPrefixes |-> <<>>]

NoSteps == [ont |-> Absent, pass |-> 0, events |-> {}]

\* what a run meets when a result file, a registry entry or a raw file is no
\* longer what the run before left or read
ChangedInputs ==
    {"corrupted_results_file", "missing_url", "missing_base_namespaces",
     "failed_download", "download", "failed_sha256_hash"}

\* the first step taken on an ontology in a pass
Begin(event) ==
    /\ steps' = [ont |-> o, pass |-> IF pc = "aggregate" THEN 2 ELSE 1,
                 events |-> {event}]
    /\ prev' = results[o]
    /\ repeat' = (repeat /\ event \notin ChangedInputs)

\* a later step on the same ontology
NoteAll(events) ==
    /\ steps' = [steps EXCEPT !.events = @ \cup events]
    /\ repeat' = (repeat /\ events \cap ChangedInputs = {})
    /\ UNCHANGED prev

Note(event) == NoteAll({event})

Happened(event) == event \in steps.events

ResetLocals ==
    /\ ont_results' = EmptyRecord
    /\ download' = TRUE
    /\ make_base' = TRUE
    /\ ourl' = Absent
    /\ base_namespaces' = Absent
    /\ sha256_hash' = Null

\* save_yaml(ont_results, ont_results_path)
save_yaml(rec) == results' = [results EXCEPT ![o] = File(rec)]

NextOntologyEager ==
    /\ ResetLocals
    /\ idx' = 1
    /\ pc' = "aggregate"

\* continue, or the end of the loop body of pass one: the next ontology
\* starts with fresh locals (lines 92-95); after the last one pass two starts
NextOntology ==
    /\ ResetLocals
    /\ IF idx < Len(ontologies)
       THEN idx' = idx + 1 /\ pc' = "start"
       ELSE idx' = 1 /\ pc' = "aggregate"

FailKeepingRecord(rec, tag) ==
    /\ save_yaml(rec)
    /\ NextOntology

\* a failure of pass one: the tag is set, the record saved, the loop continues
Fail(rec, tag) ==
    /\ save_yaml([rec EXCEPT !.failure = tag])
    /\ NextOntology

\* no URI check is under way
UrisIdle ==
    /\ lines = <<>>
    /\ lineno = 1
    /\ prefixes = TRUE
    /\ header = TRUE
    /\ valid = FALSE
    /\ owl = Null
    /\ rdf = Null
    /\ error = <<>>
    /\ warn = <<>>
    /\ fp3_tsv = <<>>
    /\ status = Absent
    /\ fpc = "idle"
    /\ checked = {}

Init ==
    /\ ontologies \in Registries
    /\ config \in Configs
    /\ results = [x \in Ontologies |-> NoFile]
    /\ raw = [x \in Ontologies |-> NoRaw]
    /\ base = [x \in Ontologies |-> NoNumber]
    /\ metricsFile = [x \in Ontologies |-> FALSE]
    /\ runs = 1
    /\ pc = "start"
    /\ idx = 1
    /\ ont_results = EmptyRecord
    /\ download = TRUE
    /\ make_base = TRUE
    /\ ourl = Absent
    /\ base_namespaces = Absent
    /\ sha256_hash = Null
    /\ ontology_use = NoUse
    /\ steps = NoSteps
    /\ prev = NoFile
    /\ repeat = FALSE
    /\ UrisIdle

\* ---------------------------------------------------------------- pass one

\* get_hours_since(mtime) < config.get_redownload_after_hours(), for the
\* file at ont_base_path
RecentlyProcessed(age, cfg) ==
    age # NoNumber /\ age < cfg.redownload_after_hours

SkipsOntologyNever(file, cfg) == FALSE

SkipsOntologyFoundAtStart(file, cfg) ==
    file.exists /\ cfg.skip_existing /\ runs > 1

\* lines 96-97 and 297-298: os.path.exists(ont_results_path) and
\* config.is_skip_existing()
SkipsOntology(file, cfg) == file.exists /\ cfg.skip_existing

\* lines 82-119: the result file is looked up; in skip-existing mode the
\* ontology is passed over; else the record is loaded (a file that does not
\* parse is replaced by a record holding the failure alone) and the download
\* flag is decided from the age of the base file.
StartOntology ==
    /\ pc = "start"
    /\ UNCHANGED uris
    /\ UNCHANGED <<ontologies, config, raw, base, metricsFile, runs, ontology_use>>
    /\ IF SkipsOntology(results[o], config)
       THEN /\ Begin("skipped")
            /\ NextOntology
            /\ UNCHANGED results
       ELSE \/ /\ results[o].exists
               /\ Begin("corrupted_results_file")
               /\ Fail(EmptyRecord, "corrupted_results_file")
            \/ /\ ont_results' =
                     [(IF results[o].exists THEN results[o].rec ELSE EmptyRecord)
                        EXCEPT !.namespace = o]
               /\ download' = ~RecentlyProcessed(base[o], config)
               /\ pc' = "resolve_url"
               /\ UNCHANGED <<results, idx>>
               /\ Begin("loaded")
               /\ UNCHANGED <<make_base, ourl, base_namespaces, sha256_hash>>

\* f'{o}-base.' in ourl
IsBaseUrl(u) == u = "url-base."

\* lines 121-130: ourl = ontologies[o]['mirror_from']
ResolveUrl ==
    /\ pc = "resolve_url"
    /\ UNCHANGED uris
    /\ UNCHANGED <<ontologies, config, raw, base, metricsFile, runs, ontology_use>>
    /\ \E u \in Urls(o) :
         IF u = Absent
         THEN /\ Note("missing_url")
              /\ Fail(ont_results, "missing_url")
         ELSE /\ Note("resolve_url")
              /\ ourl' = u
              /\ make_base' = ~IsBaseUrl(u)
              /\ pc' = "resolve_base_ns"
              /\ UNCHANGED <<results, idx, ont_results>>
              /\ UNCHANGED <<download, base_namespaces, sha256_hash>>

\* lines 132-139: base_namespaces = ontologies[o]['base_ns']
ResolveBaseNs ==
    /\ pc = "resolve_base_ns"
    /\ UNCHANGED uris
    /\ UNCHANGED <<ontologies, config, raw, base, metricsFile, runs, ontology_use>>
    /\ \E b \in BaseNamespaces :
         IF b = Absent
         THEN /\ Note("missing_base_namespaces")
              /\ Fail(ont_results, "missing_base_namespaces")
         ELSE /\ Note("resolve_base_ns")
              /\ base_namespaces' = b
              /\ pc' = "download"
              /\ UNCHANGED <<results, idx, ont_results>>
              /\ UNCHANGED <<download, make_base, ourl, sha256_hash>>

\* lines 141-151: urllib.request.urlretrieve(ourl, ont_path), which raises
\* or leaves the fetched content at ont_path
Download ==
    /\ pc = "download"
    /\ UNCHANGED uris
    /\ UNCHANGED <<ontologies, config, base, metricsFile, runs, ontology_use>>
    /\ IF download
       THEN \/ /\ Note("failed_download")
               /\ Fail(ont_results, "failed_download")
               /\ UNCHANGED raw
            \/ \E c \in Contents :
                 /\ raw' = [raw EXCEPT ![o] = [content |-> c, age |-> 0]]
                 /\ Note("download")
                 /\ pc' = "hash"
                 /\ UNCHANGED <<results, idx>>
                 /\ UNCHANGED locals
       ELSE /\ Note("download_skipped")
            /\ pc' = "hash"
            /\ UNCHANGED <<results, raw, idx>>
            /\ UNCHANGED locals

\* sha256sum(path) of a file holding content c
sha256sum(c) == IF c = "owl_v1" THEN "sha_v1"
                ELSE IF c = "owl_v2" THEN "sha_v2"
                ELSE IF c = "bucket_page" THEN "sha_bucket"
                ELSE "sha_short"

\* download or 'sha256_hash' not in ont_results
HashIsComputed(dl, rec) == dl \/ rec.sha256_hash = Absent

\* lines 155-163: the hash of the raw file is computed after a download or
\* when the record holds none; sha256sum raises when the file is missing or
\* cannot be read
Hash ==
    /\ pc = "hash"
    /\ UNCHANGED uris
    /\ UNCHANGED <<ontologies, config, raw, base, metricsFile, runs, ontology_use>>
    /\ IF HashIsComputed(download, ont_results)
       THEN \/ /\ Note("failed_sha256_hash")
               /\ Fail(ont_results, "failed_sha256_hash")
            \/ /\ raw[o].content # Absent
               /\ sha256_hash' = sha256sum(raw[o].content)
               /\ Note("hash")
               /\ pc' = "detect"
               /\ UNCHANGED <<results, idx, ont_results>>
               /\ UNCHANGED <<download, make_base, ourl, base_namespaces>>
       ELSE /\ sha256_hash' = Null
            /\ Note("hash_skipped")
            /\ pc' = "detect"
            /\ UNCHANGED <<results, idx, ont_results>>
            /\ UNCHANGED <<download, make_base, ourl, base_namespaces>>

\* lines 165-179: the value ont_results['changed'] gets
Changed(rec, sha, rawfile, cfg) ==
    IF /\ rec.sha256_hash # Absent
       /\ sha # Null
       /\ rec.sha256_hash = sha
       /\ rawfile.content # Absent
       /\ ~(rawfile.age >= cfg.force_regenerate_dashboard_after_hours)
    THEN "False"
    ELSE "True"

BoolStr(b) == IF b THEN "True" ELSE "False"

DetectedKeepingFailure(rec, sha, rawfile, cfg, mb, url) ==
    [rec EXCEPT !.changed = Changed(rec, sha, rawfile, cfg),
                !.sha256_hash = sha,
                !.base_generated = BoolStr(mb),
                !.mirror_from = url]

\* lines 165-186: the record after change detection
Detected(rec, sha, rawfile, cfg, mb, url) ==
    [rec EXCEPT !.changed = Changed(rec, sha, rawfile, cfg),
                !.failure = Absent,
                !.sha256_hash = sha,
                !.base_generated = BoolStr(mb),
                !.mirror_from = url]

\* lines 165-189: changed is decided, a failure tag of an earlier run is
\* popped, the hash, base_generated and mirror_from are stored, the record
\* is saved
DetectChange ==
    /\ pc = "detect"
    /\ UNCHANGED uris
    /\ UNCHANGED <<ontologies, config, raw, base, metricsFile, runs, ontology_use>>
    /\ UNCHANGED <<download, make_base, ourl, base_namespaces, sha256_hash, idx>>
    /\ Note("detect")
    /\ LET rec == Detected(ont_results, sha256_hash, raw[o], config, make_base, ourl)
       IN /\ ont_results' = rec
          /\ save_yaml(rec)
          /\ pc' = "verify"

MustGenerateIgnoringBase(rec, metricsExists, baseAge) ==
    rec.changed = "True" \/ ~metricsExists

\* line 192: the condition under which the verification and the generation
\* of base file and metrics run
MustGenerate(rec, metricsExists, baseAge) ==
    rec.changed = "True" \/ ~metricsExists \/ baseAge = NoNumber

VerifyRaisesMarkerOnly(content) == content \in {Absent, "bucket_page"}

\* lines 199-203: the first 10 lines of the raw file are read; a file of
\* fewer lines, a missing file, or a line holding ListBucketResult raises
VerifyRaises(content) ==
    content \in {Absent, "short_file", "bucket_page"}

\* lines 192-208, 268-269
Verify ==
    /\ pc = "verify"
    /\ UNCHANGED uris
    /\ UNCHANGED <<ontologies, config, raw, base, metricsFile, runs, ontology_use>>
    /\ IF MustGenerate(ont_results, metricsFile[o], base[o])
       THEN IF VerifyRaises(raw[o].content)
            THEN /\ Note("not_an_ontology")
                 /\ Fail(ont_results, "not_an_ontology")
            ELSE /\ Note("verify")
                 /\ pc' = "robot"
                 /\ UNCHANGED <<results, idx>>
                 /\ UNCHANGED locals
       ELSE /\ Note("generate_skipped")
            /\ pc' = "validate"
            /\ UNCHANGED <<results, idx>>
            /\ UNCHANGED locals

\* lines 212-218: robot_prepare_ontology raises (having written none, one or
\* both of its output files), or returns having written the base file and,
\* possibly, the metrics file
Robot ==
    /\ pc = "robot"
    /\ UNCHANGED uris
    /\ UNCHANGED <<ontologies, config, raw, runs, ontology_use>>
    /\ \/ /\ NoteAll({"robot", "failed_robot_base"})
          /\ Fail(ont_results, "failed_robot_base")
          /\ \/ UNCHANGED base
             \/ base' = [base EXCEPT ![o] = 0]
          /\ \/ UNCHANGED metricsFile
             \/ metricsFile' = [metricsFile EXCEPT ![o] = TRUE]
       \/ /\ Note("robot")
          /\ base' = [base EXCEPT ![o] = 0]
          /\ \/ UNCHANGED metricsFile
             \/ metricsFile' = [metricsFile EXCEPT ![o] = TRUE]
          /\ pc' = "metrics"
          /\ UNCHANGED <<results, idx>>
          /\ UNCHANGED locals

\* lines 223-250: the record after the flattening of artifact a, which stops
\* at the first key the artifact lacks
Flatten(rec, a) ==
    LET m0 == EmptyMetrics
        m1 == [m0 EXCEPT !.consistent = a.consistent]
        m2 == [m1 EXCEPT !.axioms = a.axioms]
        m3 == [m2 EXCEPT !.pct = a.pct, !.usage = a.usage]
        m4 == [m3 EXCEPT !.syntax = "present"]
        withPrefixes == [rec EXCEPT !.base_prefixes = a.curie]
    IN CASE a.cut = "unparseable" -> rec
         [] a.cut = "no_consistent" -> [withPrefixes EXCEPT !.metrics = m0]
         [] a.cut = "no_entity_count" -> [withPrefixes EXCEPT !.metrics = m2]
         [] a.cut = "no_syntax" -> [withPrefixes EXCEPT !.metrics = m3]
         [] OTHER -> [withPrefixes EXCEPT !.metrics = m4]

\* lines 252-256: every base prefix of the ontology is appended to the list
\* of every prefix its axioms use
AddUses(use, base_prefixes, usage) ==
    [p \in AllPrefixes |-> IF p \in usage THEN use[p] \o base_prefixes ELSE use[p]]

\* lines 221-267: the metrics file the toolchain left is loaded and
\* flattened into the record, and the Global Reuse Map is extended
Metrics ==
    /\ pc = "metrics"
    /\ UNCHANGED uris
    /\ UNCHANGED <<ontologies, config, raw, base, metricsFile, runs>>
    /\ IF metricsFile[o]
       THEN \E a \in Artifacts(o) :
              IF a.cut = "full"
              THEN /\ ont_results' = Flatten(ont_results, a)
                   /\ ontology_use' = AddUses(ontology_use, a.curie, a.usage)
                   /\ Note("use_written")
                   /\ pc' = "validate"
                   /\ UNCHANGED <<results, idx>>
                   /\ UNCHANGED <<download, make_base, ourl, base_namespaces,
                                  sha256_hash>>
              ELSE /\ Fail(Flatten(ont_results, a), "broken_metrics_file")
                   /\ Note("broken_metrics_file")
                   /\ UNCHANGED ontology_use
       ELSE /\ Fail(ont_results, "missing_metrics_file")
            /\ Note("missing_metrics_file")
            /\ UNCHANGED ontology_use

SanityGateConsistencyFirst(m) ==
    IF ~m.present \/ m.axioms = NoNumber \/ m.consistent = Absent THEN "missing_metrics"
    ELSE IF m.consistent # "True" THEN "inconsistent_ontology"
    ELSE IF m.axioms < 1 THEN "empty_ontology"
    ELSE Absent

\* lines 272-288: the failure tag of the sanity gate, Absent when it passes
SanityGate(m) ==
    IF ~m.present \/ m.axioms = NoNumber THEN "missing_metrics"
    ELSE IF m.axioms < 1 THEN "empty_ontology"
    ELSE IF m.consistent = Absent THEN "missing_metrics"
    ELSE IF m.consistent # "True" THEN "inconsistent_ontology"
    ELSE Absent

\* lines 271-290
Validate ==
    /\ pc = "validate"
    /\ UNCHANGED uris
    /\ UNCHANGED <<ontologies, config, raw, base, metricsFile, runs, ontology_use>>
    /\ IF SanityGate(ont_results.metrics) # Absent
       THEN /\ NoteAll({"validate", SanityGate(ont_results.metrics)})
            /\ Fail(ont_results, SanityGate(ont_results.metrics))
       ELSE /\ NoteAll({"validate", "recorded"})
            /\ save_yaml(ont_results)
            /\ NextOntology

\* ---------------------------------------------------------------- pass two

ToSet(seq) == {seq[i] : i \in 1..Len(seq)}

\* lines 304-309: uses = list(set(uses))
Uses(rec, use) ==
    IF rec.base_prefixes = AbsentList THEN {}
    ELSE UNION {ToSet(use[p]) : p \in ToSet(rec.base_prefixes) \cap AllPrefixes}

\* round_float(num / den), in thousandths
round_float(num, den) == (2 * 1000 * num + den) \div (2 * den)

\* lines 311-315: the metrics block with the reuse count and the scores
Scored(rec, use) ==
    [rec EXCEPT !.metrics.uses = Cardinality(Uses(rec, use)),
                !.metrics.impact = round_float(Cardinality(Uses(rec, use)), Len(ontologies)),
                !.metrics.reuse = round_float(rec.metrics.pct, 100)]

MustRenderIgnoringFailure(rec) ==
    rec.changed = "True" \/ rec.results = Absent

\* line 321
MustRender(rec) ==
    (rec.changed = "True" \/ rec.results = Absent) /\ rec.failure = Absent

\* continue, or the end of the loop body of pass two
NextAggregate ==
    /\ ResetLocals
    /\ IF idx < Len(ontologies)
       THEN idx' = idx + 1 /\ pc' = "aggregate"
       ELSE idx' = 1 /\ pc' = "finished"

\* an exception no handler catches: prepare_ontologies ends there
Crash ==
    /\ ResetLocals
    /\ pc' = "crashed"
    /\ UNCHANGED idx

\* lines 294-321, 331-334: the record is read back; when it holds metrics
\* the reuse count and the scores are written into it and saved. A metrics
\* block without 'Entities: % of entities reused' (line 314) or a record
\* without 'changed' (line 321) raises KeyError outside any try.
Aggregate ==
    /\ pc = "aggregate"
    /\ UNCHANGED uris
    /\ UNCHANGED <<ontologies, config, raw, base, metricsFile, runs, ontology_use>>
    /\ IF ~results[o].exists
       THEN /\ Begin("no_result_file")
            /\ NextAggregate
            /\ UNCHANGED results
       ELSE IF SkipsOntology(results[o], config)
       THEN /\ Begin("aggregate_skipped")
            /\ NextAggregate
            /\ UNCHANGED results
       ELSE IF ~results[o].rec.metrics.present
       THEN /\ Begin("no_metrics")
            /\ NextAggregate
            /\ UNCHANGED results
       ELSE IF results[o].rec.metrics.pct = NoNumber
       THEN /\ Begin("key_error")
            /\ Crash
            /\ UNCHANGED results
       ELSE /\ save_yaml(Scored(results[o].rec, ontology_use))
            /\ IF results[o].rec.changed = Absent
               THEN /\ Begin("key_error")
                    /\ Crash
               ELSE IF MustRender(results[o].rec)
               THEN /\ Begin("aggregated")
                    /\ ont_results' = Scored(results[o].rec, ontology_use)
                    /\ pc' = "render"
                    /\ UNCHANGED <<idx, download, make_base, ourl,
                                   base_namespaces, sha256_hash>>
               ELSE /\ Begin("aggregated")
                    /\ NextAggregate

RenderFailedUnwinding(rec) ==
    [rec EXCEPT !.failure = "failed_ontology_dashboard",
                !.metrics.uses = NoNumber,
                !.metrics.impact = NoNumber,
                !.metrics.reuse = NoNumber]

\* lines 325-328: the record the except branch saves
RenderFailed(rec) == [rec EXCEPT !.failure = "failed_ontology_dashboard"]

\* lines 322-329: make <dashboard.html> raises, or renders the dashboard
\* and leaves its results in the record file
Render ==
    /\ pc = "render"
    /\ UNCHANGED uris
    /\ UNCHANGED <<ontologies, config, raw, base, metricsFile, runs, ontology_use>>
    /\ \/ /\ Note("failed_ontology_dashboard")
          /\ save_yaml(RenderFailed(ont_results))
       \/ /\ Note("rendered")
          /\ save_yaml([results[o].rec EXCEPT !.results = "present"])
    /\ NextAggregate

\* ------------------------------------------------------------ between runs

\* every registered ontology went through both passes without failure
CompleteRun ==
    /\ pc = "finished"
    /\ \A i \in 1..Len(ontologies) :
         LET f == results[ontologies[i]]
         IN /\ f.exists
            /\ f.rec.failure = Absent
            /\ f.rec.metrics.syntax = "present"
            /\ f.rec.metrics.uses # NoNumber
            /\ f.rec.results = "present"

\* every raw and base file is younger than both thresholds
InsideWindows(raws, bases, cfg) ==
    \A i \in 1..Len(ontologies) :
      LET x == ontologies[i]
      IN /\ bases[x] # NoNumber
         /\ bases[x] < cfg.redownload_after_hours
         /\ raws[x].age # NoNumber
         /\ raws[x].age < cfg.redownload_after_hours
         /\ raws[x].age < cfg.force_regenerate_dashboard_after_hours

\* the runs a behaviour holds over its registry
RunLimit == IF Len(ontologies) = 1 THEN MaxRuns ELSE 1

Aged(age, d) ==
    IF age = NoNumber THEN NoNumber
    ELSE IF age + d > MaxAge THEN MaxAge ELSE age + d

\* prepare_ontologies has returned or raised; d hours later it is called
\* again, under a configuration read anew
NextRun ==
    /\ pc \in {"finished", "crashed"}
    /\ UNCHANGED uris
    /\ UNCHANGED ontologies
    /\ runs < RunLimit
    /\ runs' = runs + 1
    /\ config' \in Configs
    /\ \E d \in 0..MaxAge :
         /\ raw' = [x \in Ontologies |-> [raw[x] EXCEPT !.age = Aged(raw[x].age, d)]]
         /\ base' = [x \in Ontologies |-> Aged(base[x], d)]
    /\ ontology_use' = NoUse
    /\ steps' = NoSteps
    /\ prev' = NoFile
    /\ repeat' = (CompleteRun /\ ~config'.skip_existing
                     /\ InsideWindows(raw', base', config'))
    /\ pc' = "start"
    /\ idx' = 1
    /\ UNCHANGED <<results, metricsFile>>
    /\ UNCHANGED locals

\* ------------------------------------------------- fp_003: the URI check

\* the ontology ID the check is run for
Namespace == "foo"

Obo == "http://purl.obolibrary.org/obo/"

\* The lines a file may hold, each named after what it is in RDF/XML.
LineKinds ==
    {"xmlns_owl", "xmlns_rdf", "ontology_open", "ontology_empty",
     "ontology_close", "class_numeric", "class_no_underscore",
     "class_not_numeric", "annotation_property", "label"}

\* the texts, among those the scan looks for, that a line holds
Texts(line) ==
    CASE line = "xmlns_owl" -> {"http://www.w3.org/2002/07/owl#"}
      [] line = "xmlns_rdf" -> {"http://www.w3.org/1999/02/22-rdf-syntax-ns#"}
      [] line = "ontology_open" -> {"Ontology", "about", "rdf:about"}
      [] line = "ontology_empty" -> {"Ontology", "about", "rdf:about", "/>"}
      [] line = "ontology_close" -> {"Ontology", "</owl:Ontology>"}
      [] line = "annotation_property" ->
             {"about", "rdf:about", "owl:AnnotationProperty"}
      [] line \in {"class_numeric", "class_no_underscore", "class_not_numeric"} ->
             {"about", "rdf:about"}
      [] OTHER -> {}

\* text in line
Contains(line, text) == text \in Texts(line)

\* the value of rdf:about in a line, as the parts of the IRI
get_resource_value(line) ==
    CASE line = "class_numeric" -> <<Obo, "FOO", "_", "0000001">>
      [] line = "class_no_underscore" -> <<Obo, "FOO", "#", "Part">>
      [] line = "class_not_numeric" -> <<Obo, "FOO", "_", "Part">>
      [] line = "annotation_property" -> <<Obo, "FOO", "#", "Subset">>
      [] line \in {"ontology_open", "ontology_empty"} -> <<Obo, "foo", ".owl">>
      [] OTHER -> <<>>

\* str.lower(), part by part
LowerPart(part) ==
    CASE part = "FOO" -> "foo"
      [] part = "Part" -> "part"
      [] part = "Subset" -> "subset"
      [] OTHER -> part

lower(iri) == [i \in 1..Len(iri) |-> LowerPart(iri[i])]

\* dash_utils.get_prefix(line): the prefix an xmlns line declares
get_prefix(line) ==
    CASE line = "xmlns_owl" -> "owl"
      [] line = "xmlns_rdf" -> "rdf"
      [] OTHER -> Null

\* '{0}'.format(x)
Format(x) == IF x = Null THEN "None" ELSE x

\* str.startswith
startswith(iri, parts) ==
    Len(iri) >= Len(parts) /\ SubSeq(iri, 1, Len(parts)) = parts

\* lines 166-177: True, or AttributeError when line 172 is reached (str has
\* no attribute startwith)
check_uri(namespace, iri) ==
    IF iri = <<Obo, namespace, ".owl">> THEN "True"
    ELSE IF startswith(iri, <<namespace>>) THEN "AttributeError"
    ELSE "True"

\* line 110: 'Ontology' and 'about' in line, which is: 'about' in line
OntologyAndAbout(line) == Contains(line, "about")

\* the loop goes on with the next line
NextLine == lineno' = lineno + 1

\* lines 109-146: one iteration of the loop over the lines of the file
ScanLine ==
    /\ fpc = "scan"
    /\ lineno <= Len(lines)
    /\ UNCHANGED pipeline
    /\ UNCHANGED <<lines, fp3_tsv>>
    /\ LET line == lines[lineno]
           iri == lower(get_resource_value(line))
       IN IF OntologyAndAbout(line)
          THEN IF owl = Null /\ rdf = Null
               THEN /\ status' = "INFO"
                    /\ fpc' = "returned"
                    /\ UNCHANGED <<lineno, prefixes, header, valid, owl, rdf,
                                   error, warn, checked>>
               ELSE /\ prefixes' = FALSE
                    /\ valid' = TRUE
                    /\ header' = IF Contains(line, "/>") THEN FALSE ELSE header
                    /\ NextLine
                    /\ UNCHANGED <<owl, rdf, error, warn, status, fpc, checked>>
          ELSE IF prefixes /\ Contains(line, "http://www.w3.org/2002/07/owl#")
          THEN /\ owl' = get_prefix(line)
               /\ NextLine
               /\ UNCHANGED <<prefixes, header, valid, rdf, error, warn,
                              status, fpc, checked>>
          ELSE IF prefixes
                    /\ Contains(line, "http://www.w3.org/1999/02/22-rdf-syntax-ns#")
          THEN /\ rdf' = get_prefix(line)
               /\ NextLine
               /\ UNCHANGED <<prefixes, header, valid, owl, error, warn,
                              status, fpc, checked>>
          ELSE IF header /\ Contains(line, "</" \o Format(owl) \o ":Ontology>")
          THEN /\ header' = FALSE
               /\ NextLine
               /\ UNCHANGED <<prefixes, valid, owl, rdf, error, warn,
                              status, fpc, checked>>
          ELSE IF /\ ~header
                  /\ Contains(line, Format(rdf) \o ":about")
                  /\ ~Contains(line, Format(owl) \o ":AnnotationProperty")
          THEN /\ checked' = checked \cup {iri}
               /\ UNCHANGED <<prefixes, header, valid, owl, rdf>>
               /\ IF check_uri(Namespace, iri) = "AttributeError"
                  THEN /\ status' = "AttributeError"
                       /\ fpc' = "raised"
                       /\ UNCHANGED <<lineno, error, warn>>
                  ELSE /\ error' = IF check_uri(Namespace, iri) = "ERROR"
                                   THEN Append(error, iri) ELSE error
                       /\ warn' = IF check_uri(Namespace, iri) = "WARN"
                                  THEN Append(warn, iri) ELSE warn
                       /\ NextLine
                       /\ UNCHANGED <<status, fpc>>
          ELSE /\ NextLine
               /\ UNCHANGED <<prefixes, header, valid, owl, rdf, error, warn,
                              status, fpc, checked>>

\* lines 148-153: after the last line
EndOfFile ==
    /\ fpc = "scan"
    /\ lineno > Len(lines)
    /\ UNCHANGED pipeline
    /\ UNCHANGED <<lines, lineno, prefixes, header, valid, owl, rdf, error, warn,
                   fp3_tsv, checked>>
    /\ IF ~valid
       THEN status' = "INFO" /\ fpc' = "returned"
       ELSE status' = status /\ fpc' = "save"

\* lines 192-198: the rows written to fp3.tsv
Rows(err, wrn) ==
    [i \in 1..Len(err) |-> <<"ERROR", err[i]>>]
        \o [i \in 1..Len(wrn) |-> <<"WARN", wrn[i]>>]

\* lines 200-210: the status save_invalid_uris returns
SavedStatus(err, wrn) ==
    IF Len(err) > 0 /\ Len(wrn) > 0 THEN "ERROR"
    ELSE IF Len(err) > 0 THEN "ERROR"
    ELSE IF Len(wrn) > 0 THEN "ERROR"
    ELSE "PASS"

\* lines 180-210: save_invalid_uris(ns, error, warn)
SaveInvalidUris ==
    /\ fpc = "save"
    /\ UNCHANGED pipeline
    /\ UNCHANGED <<lines, lineno, prefixes, header, valid, owl, rdf, error, warn,
                   checked>>
    /\ fp3_tsv' = IF Len(error) > 0 \/ Len(warn) > 0
                  THEN Rows(error, warn) ELSE fp3_tsv
    /\ status' = SavedStatus(error, warn)
    /\ fpc' = "returned"

\* the files big_has_valid_uris may be given
Files == UNION {[1..n -> LineKinds] : n \in 0..MaxLines}

\* the IRIs has_valid_uris may find wanting
Iris ==
    {lower(get_resource_value(k)) :
        k \in {"class_numeric", "class_no_underscore", "class_not_numeric"}}

\* the lists save_invalid_uris may be given by has_valid_uris (line 74)
IriLists == UNION {[1..n -> Iris] : n \in 0..MaxIris}

\* prepare_ontologies is not under way
PipelineIdle ==
    /\ ontologies = <<"foo">>
    /\ config = [skip_existing |-> FALSE, redownload_after_hours |-> 1,
                 force_regenerate_dashboard_after_hours |-> 0]
    /\ results = [x \in Ontologies |-> NoFile]
    /\ raw = [x \in Ontologies |-> NoRaw]
    /\ base = [x \in Ontologies |-> NoNumber]
    /\ metricsFile = [x \in Ontologies |-> FALSE]
    /\ runs = 1
    /\ pc = "start"
    /\ idx = 1
    /\ ont_results = EmptyRecord
    /\ download = TRUE
    /\ make_base = TRUE
    /\ ourl = Absent
    /\ base_namespaces = Absent
    /\ sha256_hash = Null
    /\ ontology_use = NoUse
    /\ steps = NoSteps
    /\ prev = NoFile
    /\ repeat = FALSE

\* big_has_valid_uris is called on a file (lines 96-105), or
\* save_invalid_uris is called with two lists
InitUris ==
    /\ PipelineIdle
    /\ lineno = 1
    /\ prefixes = TRUE
    /\ header = TRUE
    /\ valid = FALSE
    /\ owl = Null
    /\ rdf = Null
    /\ fp3_tsv = <<>>
    /\ status = Absent
    /\ checked = {}
    /\ \/ /\ fpc = "scan"
          /\ lines \in Files
          /\ error = <<>>
          /\ warn = <<>>
       \/ /\ fpc = "save"
          /\ lines = <<>>
          /\ error \in IriLists
          /\ warn \in IriLists

\* ------------------------------------------------------------- properties

\* the pass over steps.ont has ended (the loop has moved on)
PassOneEnded == steps.pass = 1 /\ pc \in {"start", "aggregate"}

PassTwoEnded == steps.pass = 2 /\ pc \in {"aggregate", "finished", "crashed"}

PastHash == Happened("hash") \/ Happened("hash_skipped")

\* C1: a record that carries a failure tag when the aggregation pass reads it
\* is left as it is: no reuse count and no scores are written into it.
C1_FailedRecordNotAggregated ==
    (steps.pass = 2 /\ prev.exists /\ prev.rec.failure # Absent)
        => (~Happened("aggregated") /\ results[steps.ont] = prev)

EarlyFailures ==
    {"missing_url", "missing_base_namespaces", "failed_download",
     "failed_sha256_hash", "not_an_ontology", "failed_robot_base"}

\* C2: no record on disk holds both a failure tag of a stage before
\* VALIDATE_METRICS and a metrics block.
C2_NoMetricsWithEarlyFailure ==
    \A x \in Ontologies :
      (results[x].exists /\ results[x].rec.failure \in EarlyFailures)
          => ~results[x].rec.metrics.present

\* C3: a run that repeats a complete run inside both windows, and finds the
\* result files, the registry and the raw files as that run left them, does
\* not invoke the toolchain and leaves every record as the first run left it.
C3_RepeatedRunIdempotent ==
    repeat =>
        /\ pc # "robot"
        /\ ~Happened("robot")
        /\ (PassOneEnded \/ PassTwoEnded) => results[steps.ont] = prev

\* C4: no run of prepare_ontologies ends before the end of both passes.
C4_RunNeverAborts == pc # "crashed"

\* C5: when an ontology got past the HASH stage and its raw file is a bucket
\* listing or has fewer than 10 lines, pass one leaves failure =
\* not_an_ontology in its record.
C5_BadRawFileRecorded ==
    (PassOneEnded /\ PastHash
        /\ raw[steps.ont].content \in {"bucket_page", "short_file"})
        => results[steps.ont].rec.failure = "not_an_ontology"

\* C6: the toolchain is invoked only on a raw file of at least 10 lines
\* without the bucket marker, after the url and the base namespaces were
\* resolved, the HASH stage passed and the verification succeeded, all in the
\* same pipeline invocation.
C6_ToolchainOnlyAfterVerify ==
    (pc = "robot" \/ (steps.pass = 1 /\ Happened("robot")))
        => /\ raw[steps.ont].content \in {"owl_v1", "owl_v2"}
           /\ Happened("verify")
           /\ Happened("resolve_url")
           /\ Happened("resolve_base_ns")
           /\ PastHash
           /\ ~Happened("not_an_ontology")

C6_Witness == pc = "metrics" /\ Happened("robot") /\ Happened("verify")

\* C7: after pass one, a record that went through every stage has no failure
\* key, whatever tag an earlier run left; and a failure tag in the record of
\* an ontology that was not skipped was written in this run (in pass two: by
\* pass one of this run or by the rendering).
C7_StaleFailureCleared ==
    /\ PassOneEnded =>
         /\ Happened("recorded") => results[steps.ont].rec.failure = Absent
         /\ (~Happened("skipped") /\ results[steps.ont].rec.failure # Absent)
              => Happened(results[steps.ont].rec.failure)
    /\ (PassTwoEnded /\ ~Happened("aggregate_skipped")
          /\ results[steps.ont].exists
          /\ results[steps.ont].rec.failure # Absent)
         => \/ results[steps.ont].rec.failure = prev.rec.failure
            \/ Happened(results[steps.ont].rec.failure)

C7_Witness ==
    /\ PassOneEnded
    /\ prev.exists
    /\ prev.rec.failure = "failed_download"
    /\ Happened("recorded")
    /\ results[steps.ont].rec.failure = Absent

\* C8: past the HASH stage, verification and generation are entered exactly
\* when changed is True or the metrics file or the base file is missing.
C8_GenerateIffChangedOrMissing ==
    /\ (pc = "robot" \/ (PassOneEnded /\ Happened("not_an_ontology")))
         => \/ results[steps.ont].rec.changed = "True"
            \/ ~metricsFile[steps.ont]
            \/ base[steps.ont] = NoNumber
    /\ (pc = "validate" /\ Happened("generate_skipped"))
         => /\ ont_results.changed = "False"
            /\ metricsFile[o]
            /\ base[o] # NoNumber

C8_Witness ==
    /\ pc = "validate"
    /\ Happened("generate_skipped")
    /\ ont_results.changed = "False"

\* C9: in skip-existing mode the step taken on an ontology whose result file
\* exists changes no file and no entry of the Global Reuse Map, in either
\* pass, and goes straight to the next ontology.
C9_SkipExistingTouchesNothing ==
    [][(config.skip_existing /\ pc \in {"start", "aggregate"} /\ results[o].exists)
         => /\ UNCHANGED <<results, raw, base, metricsFile, ontology_use>>
            /\ pc' \in {"start", "aggregate", "finished"}]_vars

C9_Witness ==
    /\ config.skip_existing
    /\ steps.pass = 1
    /\ Happened("skipped")
    /\ prev.exists

\* the ontology a base prefix belongs to
Owner(prefix) == IF prefix \in {"FOO", "FOO_ALT"} THEN "foo" ELSE "bar"

\* C10: the reuse count written for an aggregated ontology is the number of
\* distinct ontologies among the users the Global Reuse Map holds for its
\* base prefixes, and the impact score is that count over the number of
\* registered ontologies.
C10_ReuseCountByNamespace ==
    (steps.pass = 2 /\ Happened("aggregated"))
        => LET users == {Owner(u) : u \in Uses(prev.rec, ontology_use)}
               m == results[steps.ont].rec.metrics
           IN /\ m.uses = Cardinality(users)
              /\ m.impact = round_float(Cardinality(users), Len(ontologies))

\* C11: the reuse count of an aggregated ontology leaves the ontology itself
\* out: when every user the Global Reuse Map holds for its base prefixes is
\* one of its own base prefixes, its reuse count and its impact score are 0.
C11_SelfUseNotCounted ==
    (steps.pass = 2 /\ Happened("aggregated")
        /\ \A u \in Uses(prev.rec, ontology_use) : Owner(u) = steps.ont)
        => /\ results[steps.ont].rec.metrics.uses = 0
           /\ results[steps.ont].rec.metrics.impact = 0

\* the record of x can be aggregated: it holds a metrics block with the
\* share of reused entities
Aggregable(x) ==
    /\ results[x].exists
    /\ results[x].rec.metrics.present
    /\ results[x].rec.metrics.pct # NoNumber

\* C12: when a run has ended, the reuse count and both scores of every
\* registered ontology whose record can be aggregated are those the contents
\* of the Global Reuse Map and of the record give, whatever the position of
\* the ontology in the registry.
C12_AggregationOrderFree ==
    (pc \in {"finished", "crashed"} /\ ~config.skip_existing)
        => \A i \in 1..Len(ontologies) :
             Aggregable(ontologies[i])
                 => LET rec == results[ontologies[i]].rec
                    IN /\ rec.metrics.uses = Cardinality(Uses(rec, ontology_use))
                       /\ rec.metrics.impact =
                            round_float(Cardinality(Uses(rec, ontology_use)),
                                        Len(ontologies))
                       /\ rec.metrics.reuse = round_float(rec.metrics.pct, 100)

\* the rendering of steps.ont has been invoked in this pass
RenderInvoked ==
    steps.pass = 2
      /\ (pc = "render" \/ Happened("rendered") \/ Happened("failed_ontology_dashboard"))

\* C13: the rendering is invoked only for a record that the aggregation pass
\* found without failure tag and with changed = True or without results
\* entry; and a record that pass one leaves without failure tag had its
\* changed flag set in this run.
C13_RenderOnlyIfDue ==
    /\ RenderInvoked
         => /\ prev.rec.failure = Absent
            /\ (prev.rec.changed = "True" \/ prev.rec.results = Absent)
    /\ (PassOneEnded /\ ~Happened("skipped")
          /\ results[steps.ont].rec.failure = Absent)
         => Happened("detect")

C13_Witness ==
    /\ pc = "render"
    /\ prev.rec.changed = "False"
    /\ prev.rec.results = Absent
    /\ prev.rec.failure = Absent

\* C14: a failed rendering leaves the record the aggregation wrote (metrics
\* block, reuse count, both scores) with failure = failed_ontology_dashboard
\* added, and the loop goes on with the ontology after it in the registry.
C14_RenderFailureKeepsScores ==
    (steps.pass = 2 /\ Happened("failed_ontology_dashboard"))
        => /\ results[steps.ont].rec =
                [Scored(prev.rec, ontology_use)
                   EXCEPT !.failure = "failed_ontology_dashboard"]
           /\ \/ pc = "aggregate" /\ idx > 1 /\ ontologies[idx - 1] = steps.ont
              \/ pc = "finished" /\ ontologies[Len(ontologies)] = steps.ont

C14_Witness ==
    /\ steps.pass = 2
    /\ Happened("failed_ontology_dashboard")
    /\ pc = "aggregate"
    /\ results[steps.ont].rec.metrics.uses >= 1
    /\ results[steps.ont].rec.metrics.reuse = 500

\* C15: after the sanity gate, a record whose metrics block has an axiom
\* count below 1 carries failure = empty_ontology, whatever its consistency
\* flag; failure = inconsistent_ontology is carried exactly when the axiom
\* count is at least 1 and the flag is False; either tag goes with a metrics
\* block that holds the axiom count.
C15_SanityGate ==
    (PassOneEnded /\ Happened("validate"))
        => LET m == results[steps.ont].rec.metrics
               f == results[steps.ont].rec.failure
           IN /\ (m.present /\ m.axioms # NoNumber /\ m.axioms < 1)
                    => f = "empty_ontology"
              /\ f = "inconsistent_ontology"
                    <=> (m.present /\ m.axioms >= 1 /\ m.consistent = "False")
              /\ f \in {"empty_ontology", "inconsistent_ontology"}
                    => (m.present /\ m.axioms # NoNumber)

C15_Witness ==
    /\ PassOneEnded
    /\ Happened("validate")
    /\ results[steps.ont].rec.metrics.axioms = 0
    /\ results[steps.ont].rec.metrics.consistent = "False"
    /\ results[steps.ont].rec.failure = "empty_ontology"

\* C16: after pass one, the record of an ontology that got past the HASH
\* stage holds the hash of the content of its raw file, never null, whether
\* this run downloaded the file or not.
C16_StoredHashIsContentHash ==
    (PassOneEnded /\ PastHash)
        => /\ raw[steps.ont].content # Absent
           /\ results[steps.ont].rec.sha256_hash = sha256sum(raw[steps.ont].content)

\* C17: after pass one, the record of an ontology that got past the HASH
\* stage holds changed = False exactly when the hash the run found stored is
\* the hash of the raw file's content and the raw file is younger than the
\* force-regenerate threshold, whether this run downloaded the file or not.
C17_ChangedIffContentDiffers ==
    (PassOneEnded /\ PastHash /\ raw[steps.ont].content # Absent)
        => (results[steps.ont].rec.changed = "False"
              <=> /\ prev.exists
                  /\ prev.rec.sha256_hash = sha256sum(raw[steps.ont].content)
                  /\ raw[steps.ont].age < config.force_regenerate_dashboard_after_hours)

InPassOne ==
    pc \in {"start", "resolve_url", "resolve_base_ns", "download", "hash",
            "detect", "verify", "robot", "metrics", "validate"}

InPassTwo == pc \in {"aggregate", "render"}

\* C18: the aggregation pass is entered only from the pipeline invocation of
\* the last registered ontology, the invocations having been taken one after
\* the other from the first; each invocation that ends leaves a result file;
\* the Global Reuse Map is written only in pass one; and no step of pass two
\* leads back into pass one. So when the aggregation pass reads the map,
\* every registered ontology has a result file and the map is complete.
C18_AggregationAfterPassOne ==
    /\ [](InPassTwo => \A i \in 1..Len(ontologies) : results[ontologies[i]].exists)
    /\ [][/\ (InPassOne /\ pc' = "aggregate")
               => (idx = Len(ontologies) /\ results'[o].exists)
          /\ (InPassOne /\ pc' = "start")
               => (idx' = idx + 1 /\ results'[o].exists)
          /\ (InPassOne /\ pc' \notin {"start", "aggregate"})
               => (idx' = idx /\ pc' \notin {"finished", "crashed", "render"})
          /\ (pc \in {"finished", "crashed"} /\ pc' # pc)
               => (pc' = "start" /\ idx' = 1 /\ ontology_use' = NoUse)
          /\ (ontology_use' # ontology_use)
               => (pc = "metrics" \/ pc \in {"finished", "crashed"})
          /\ InPassTwo
               => pc' \in {"aggregate", "render", "finished", "crashed"}]_vars

C18_Witness ==
    /\ pc = "aggregate"
    /\ idx = 1
    /\ steps.pass = 1
    /\ Len(ontologies) = 2
    /\ ontology_use # NoUse
    /\ \A i \in 1..Len(ontologies) : results[ontologies[i]].exists

PassOneFailures ==
    {"missing_url", "missing_base_namespaces", "failed_download",
     "failed_sha256_hash", "not_an_ontology", "failed_robot_base",
     "broken_metrics_file", "missing_metrics_file", "empty_ontology",
     "inconsistent_ontology", "missing_metrics"}

\* the stage of pass one an event belongs to
StageOf(event) ==
    CASE event \in {"resolve_url", "missing_url"} -> 1
      [] event \in {"resolve_base_ns", "missing_base_namespaces"} -> 2
      [] event \in {"download", "download_skipped", "failed_download"} -> 3
      [] event \in {"hash", "hash_skipped", "failed_sha256_hash"} -> 4
      [] event = "detect" -> 5
      [] event \in {"verify", "generate_skipped", "not_an_ontology"} -> 6
      [] event \in {"robot", "failed_robot_base"} -> 7
      [] event \in {"use_written", "broken_metrics_file", "missing_metrics_file"} -> 8
      [] event \in {"validate", "recorded", "empty_ontology",
                    "inconsistent_ontology", "missing_metrics"} -> 9
      [] OTHER -> 0

\* C19: once a failure tag is written for an ontology in pass one, the
\* pipeline invocation is over: the record on disk carries that tag, it is
\* the only tag written in the invocation, no stage after the failing one
\* has run, and a failure before the metrics are read leaves the Global
\* Reuse Map unwritten.
C19_FailureIsTerminal ==
    \A tag \in PassOneFailures :
      (steps.pass = 1 /\ Happened(tag))
          => /\ pc \in {"start", "aggregate"}
             /\ results[steps.ont].exists
             /\ results[steps.ont].rec.failure = tag
             /\ steps.events \cap PassOneFailures = {tag}
             /\ \A e \in steps.events : StageOf(e) <= StageOf(tag)
             /\ StageOf(tag) <= 8 => ~Happened("use_written")

C19_Witness ==
    /\ steps.pass = 1
    /\ Happened("failed_sha256_hash")
    /\ Happened("download")
    /\ results[steps.ont].rec.failure = "failed_sha256_hash"
    /\ ~Happened("detect")

\* C20: when the download stage is reached, the download is skipped exactly
\* when the ontology's raw file exists and is younger than the redownload
\* threshold; and a skipped download leaves a raw file to hash and verify.
C20_DownloadSkippedIffRawRecent ==
    /\ pc = "download"
         => (~download <=> /\ raw[o].content # Absent
                           /\ raw[o].age < config.redownload_after_hours)
    /\ (steps.pass = 1 /\ Happened("download_skipped"))
         => raw[steps.ont].content # Absent

\* C21: the status save_invalid_uris returns is ERROR when the error list is
\* not empty, WARN when the error list is empty and the warning list is not,
\* PASS when both are empty.
C21_StatusByLists ==
    (fpc = "returned" /\ status # "INFO")
        => status = (IF error # <<>> THEN "ERROR"
                     ELSE IF warn # <<>> THEN "WARN"
                     ELSE "PASS")

\* the file holds, in this order: the OWL and the RDF prefix lines, an
\* Ontology declaration that ends the header, and at place e the line of an
\* entity that is no annotation property
EntityAfterHeader(e) ==
    /\ e \in 1..Len(lines)
    /\ lines[e] \in {"class_numeric", "class_no_underscore", "class_not_numeric"}
    /\ \E d \in 1..(e - 1) :
         /\ lines[d] = "ontology_empty"
         /\ \E a, b \in 1..(d - 1) : lines[a] = "xmlns_owl" /\ lines[b] = "xmlns_rdf"
         /\ \A j \in 1..(d - 1) : lines[j] \in {"xmlns_owl", "xmlns_rdf", "label"}

Declarations == {"ontology_open", "ontology_empty"}

\* no entity line comes before the first Ontology declaration
DeclarationFirst ==
    \A e \in 1..Len(lines) :
      Contains(lines[e], "about")
          => \E d \in 1..e : lines[d] \in Declarations

\* some line before place d declares the OWL prefix, or the RDF prefix
PrefixBefore(d) ==
    \E a \in 1..(d - 1) : lines[a] \in {"xmlns_owl", "xmlns_rdf"}

\* C22: when big_has_valid_uris has returned, the IRI of every entity line
\* after the header was passed to check_uri, and the result is not PASS
\* when the IRI of such a line lacks the underscore after the namespace;
\* the result is INFO (the entity lines coming after the declaration) only
\* when the file holds no Ontology declaration or holds one before any
\* prefix line.
C22_EntityIrisChecked ==
    (fpc = "returned" /\ lines # <<>>)
        => /\ \A e \in 1..Len(lines) :
                EntityAfterHeader(e)
                    => /\ lower(get_resource_value(lines[e])) \in checked
                       /\ lines[e] = "class_no_underscore" => status # "PASS"
           /\ (status = "INFO" /\ DeclarationFirst)
                => \/ \A d \in 1..Len(lines) : lines[d] \notin Declarations
                   \/ \E d \in 1..Len(lines) :
                        lines[d] \in Declarations /\ ~PrefixBefore(d)

\* C23: the reuse count written for an aggregated ontology is at most the
\* number of registered ontologies and at most the number of ontologies
\* among its users, and its impact score lies between 0 and 1.
C23_ImpactAtMostOne ==
    (steps.pass = 2 /\ Happened("aggregated"))
        => LET m == results[steps.ont].rec.metrics
           IN /\ m.uses <= Len(ontologies)
              /\ m.uses <= Cardinality({Owner(u) : u \in Uses(prev.rec, ontology_use)})
              /\ m.impact >= 0
              /\ m.impact <= 1000

\* the aggregation pass is about to take up the first ontology
AggregationStarts == pc = "aggregate" /\ idx = 1 /\ steps.pass = 1

\* C24: when the aggregation pass starts (no ontology having been passed over
\* in skip-existing mode), the Global Reuse Map holds, for every registered
\* ontology whose record has a metrics block and no failure,
\* each of its base prefixes under each prefix its axioms use, whether its
\* generation stage ran in this run or was skipped.
C24_MapHoldsEveryUser ==
    (AggregationStarts /\ ~config.skip_existing)
        => \A i \in 1..Len(ontologies) :
             LET rec == results[ontologies[i]].rec
             IN (/\ results[ontologies[i]].exists
                 /\ rec.failure = Absent
                 /\ rec.metrics.present
                 /\ rec.metrics.usage # AbsentSet
                 /\ rec.base_prefixes # AbsentList)
                    => \A p \in rec.metrics.usage :
                         ToSet(rec.base_prefixes) \subseteq ToSet(ontology_use[p])

\* C25: in skip-existing mode the aggregation pass leaves the result file of
\* every ontology it reaches as it finds it, writes no reuse count and no
\* scores, and never invokes the rendering; so too for a file that pass one
\* of the same run wrote.
C25_SkipExistingSkipsAggregation ==
    config.skip_existing
        => /\ pc # "render"
           /\ (steps.pass = 2 /\ prev.exists)
                => /\ steps.events = {"aggregate_skipped"}
                   /\ results[steps.ont] = prev

C25_Witness ==
    /\ config.skip_existing
    /\ runs = 1
    /\ steps.pass = 2
    /\ Happened("aggregate_skipped")
    /\ results[steps.ont].rec.failure = Absent
    /\ results[steps.ont].rec.metrics.syntax = "present"
    /\ results[steps.ont].rec.metrics.uses = NoNumber

Next ==
    \/ StartOntology
    \/ ResolveUrl
    \/ ResolveBaseNs
    \/ Download
    \/ Hash
    \/ DetectChange
    \/ Verify
    \/ Robot
    \/ Metrics
    \/ Validate
    \/ Aggregate
    \/ Render
    \/ NextRun

Spec == Init /\ [][Next]_vars

NextUris ==
    \/ ScanLine
    \/ EndOfFile
    \/ SaveInvalidUris

SpecUris == InitUris /\ [][NextUris]_vars

====
